---- MODULE Spec2Model ----
(***************************************************************************)
(* CrosswordCreator (generate.py): crossword filling as a constraint       *)
(* satisfaction problem.  solve() runs enforce_node_consistency(), ac3()   *)
(* and backtrack(dict()).  Words are sequences of letters; Python's        *)
(* 0-based indices are kept and turned into 1-based ones by Letter.        *)
(* The iteration order of a Python set (of Variables, of words) is not     *)
(* fixed by the program: it is a nondeterministic choice in the model.     *)
(***************************************************************************)
EXTENDS Integers, Sequences, FiniteSets, TLC

VARIABLES
    structure,   \* crossword.structure/height/width: the grid solve() works on
    words,       \* crossword.words: the word list
    domains,     \* self.domains: variable -> set of words
    pc,          \* position inside solve()
    queue,       \* ac3's local work queue
    ac3ret,      \* what ac3() returned: "none" (not yet), "true", "false"
    revised,     \* variables of the arcs whose revise() call removed a word
    assignment,  \* the dict backtrack() mutates in place
    stack,       \* the live backtrack() frames below the current call
    searched,    \* whether backtrack() has been called
    result,      \* what solve() returned: "none" (not yet), "failure", "assignment"
    previous,    \* what an earlier solve() on the same grid and words returned
    lastcall     \* the last call made on the creator from outside solve()

vars == <<structure, words, domains, pc, queue, ac3ret, revised,
          assignment, stack, searched, result, previous, lastcall>>

\* what solve() neither reads nor writes
outside == <<previous, lastcall>>

----------------------------------------------------------------------------
(* Bounds and inputs *)

\* largest word list drawn for a run
MaxWords == 4

A == "A"
B == "B"

\* the words a word list is drawn from
Vocabulary ==
    { <<A, B>>, <<B, A>>, <<A, A>>,
      <<A, B, A>>, <<B, A, B>>, <<A, A, B>> }

WordLists == { ws \in SUBSET Vocabulary : Cardinality(ws) <= MaxWords }

\* grids: height, width and the fillable cells
Grid(h, w, cells) == [height |-> h, width |-> w, cells |-> cells]

\* two crossing slots of length 2 sharing their first cell
GridL == Grid(2, 2, { <<0, 0>>, <<0, 1>>, <<1, 0>> })
\* one across slot of length 3 crossed by a down slot at each end
GridH == Grid(2, 3, { <<0, 0>>, <<0, 1>>, <<0, 2>>, <<1, 0>>, <<1, 2>> })
\* two across slots that share no cell, of lengths 3 and 2
GridPar == Grid(3, 3, { <<0, 0>>, <<0, 1>>, <<0, 2>>, <<2, 0>>, <<2, 1>> })
\* two across slots of the same length that share no cell
GridTwin == Grid(3, 2, { <<0, 0>>, <<0, 1>>, <<2, 0>>, <<2, 1>> })
\* one across slot of length 3 crossed by the last cell of a down slot at
\* its start and by the first cell of a down slot at its end
GridN == Grid(3, 3, { <<0, 0>>, <<1, 0>>, <<1, 1>>, <<1, 2>>, <<2, 2>> })
\* a chain of three slots of length 3: across, down, across
GridS == Grid(3, 3, { <<0, 0>>, <<0, 1>>, <<0, 2>>, <<1, 2>>,
                      <<2, 0>>, <<2, 1>>, <<2, 2>> })

Structures == { GridL, GridH, GridN, GridPar, GridTwin, GridS }

----------------------------------------------------------------------------
(* The constraint graph (crossword.py: Variable, Crossword) *)

ACROSS == "across"
DOWN == "down"

Variable(i, j, direction, length) ==
    [i |-> i, j |-> j, direction |-> direction, length |-> length]

\* number of consecutive fillable cells from (i, j) in direction (di, dj)
RECURSIVE RunLength(_, _, _, _, _)
RunLength(g, i, j, di, dj) ==
    IF <<i, j>> \in g.cells
    THEN 1 + RunLength(g, i + di, j + dj, di, dj)
    ELSE 0

\* every maximal run of fillable cells of length > 1 is a variable
Variables(g) ==
    { Variable(c[1], c[2], ACROSS, RunLength(g, c[1], c[2], 0, 1)) :
        c \in { c \in g.cells : /\ <<c[1], c[2] - 1>> \notin g.cells
                                /\ RunLength(g, c[1], c[2], 0, 1) > 1 } }
    \cup
    { Variable(c[1], c[2], DOWN, RunLength(g, c[1], c[2], 1, 0)) :
        c \in { c \in g.cells : /\ <<c[1] - 1, c[2]>> \notin g.cells
                                /\ RunLength(g, c[1], c[2], 1, 0) > 1 } }

\* Variable.cells: the cell of each index of the slot
CellAt(v, k) ==
    <<v.i + (IF v.direction = DOWN THEN k ELSE 0),
      v.j + (IF v.direction = ACROSS THEN k ELSE 0)>>

Cells(v) == { CellAt(v, k) : k \in 0 .. v.length - 1 }

None == <<>>

\* crossword.overlaps[x, y]: None, or the indices (in x, in y) of the shared cell
Overlap(x, y) ==
    IF x = y \/ Cells(x) \cap Cells(y) = {}
    THEN None
    ELSE LET c == CHOOSE c \in Cells(x) \cap Cells(y) : TRUE
         IN  << CHOOSE k \in 0 .. x.length - 1 : CellAt(x, k) = c,
                CHOOSE k \in 0 .. y.length - 1 : CellAt(y, k) = c >>

\* crossword.neighbors(var)
Neighbors(g, var) ==
    { v \in Variables(g) : v # var /\ Overlap(v, var) # None }

\* word[k] with Python's 0-based index
Letter(word, k) == word[k + 1]

----------------------------------------------------------------------------
(* Orders in which a Python set may be enumerated *)

RECURSIVE Perms(_)
Perms(S) ==
    IF S = {} THEN { <<>> }
    ELSE UNION { { <<e>> \o p : p \in Perms(S \ {e}) } : e \in S }

Range(s) == { s[k] : k \in 1 .. Len(s) }

----------------------------------------------------------------------------
(* __init__ *)

\* self.domains = {var: crossword.words.copy() for var in crossword.variables}
InitialDomains(g, ws) == [v \in Variables(g) |-> ws]

EmptyAssignment == [v \in {} |-> <<>>]

\* no earlier solve(), no call from outside
NoRun == [result |-> "none", assignment |-> EmptyAssignment]
NoCall == [op |-> "none"]

Init ==
    /\ structure \in Structures
    /\ words \in WordLists
    /\ domains = InitialDomains(structure, words)
    /\ pc = "node"
    /\ queue = <<>>
    /\ ac3ret = "none"
    /\ revised = {}
    /\ assignment = EmptyAssignment
    /\ stack = <<>>
    /\ searched = FALSE
    /\ result = "none"
    /\ previous = NoRun
    /\ lastcall = NoCall

----------------------------------------------------------------------------
(* enforce_node_consistency *)

\* mutant: only the words shorter than the variable are removed
NodeConsistentDomainShorter(variable, dom) ==
    dom \ { word \in dom : Len(word) < variable.length }

\* every word whose length differs from the variable's length is removed
NodeConsistentDomain(variable, dom) ==
    dom \ { word \in dom : Len(word) # variable.length }

EnforceNodeConsistencyDomains(d) ==
    [variable \in DOMAIN d |-> NodeConsistentDomain(variable, d[variable])]

EnforceNodeConsistency ==
    /\ pc = "node"
    /\ domains' = EnforceNodeConsistencyDomains(domains)
    /\ pc' = "ac3"
    /\ UNCHANGED <<structure, words, queue, ac3ret, revised, assignment,
                   stack, searched, result>>
    /\ UNCHANGED outside

----------------------------------------------------------------------------
(* revise *)

\* mutant: a word of domain(x) is kept when some word of domain(y) differs
\* from it at the overlap
ToRemoveUnequal(d, x, y) ==
    LET overlap == Overlap(x, y)
    IN  { word_x \in d[x] :
            ~ \E word_y \in d[y] :
                Letter(word_x, overlap[1]) # Letter(word_y, overlap[2]) }

\* the words of domain(x) with no word of domain(y) agreeing at the overlap
ToRemove(d, x, y) ==
    LET overlap == Overlap(x, y)
    IN  { word_x \in d[x] :
            ~ \E word_y \in d[y] :
                Letter(word_x, overlap[1]) = Letter(word_y, overlap[2]) }

\* revise(x, y): the domains it leaves and the value it returns
Revise(d, x, y) ==
    IF Overlap(x, y) = None
    THEN [domains |-> d, revised |-> FALSE]
    ELSE [domains |-> [d EXCEPT ![x] = d[x] \ ToRemove(d, x, y)],
          revised |-> ToRemove(d, x, y) # {}]

----------------------------------------------------------------------------
(* ac3 *)

\* the arcs (x, y) of one variable x, neighbors in any enumeration order
ArcsOf(g, x) ==
    { [k \in 1 .. Len(p) |-> <<x, p[k]>>] : p \in Perms(Neighbors(g, x)) }

\* [(x, y) for x in variables for y in neighbors(x)] along one order of variables
RECURSIVE ArcsAlong(_, _)
ArcsAlong(g, xs) ==
    IF xs = <<>> THEN { <<>> }
    ELSE { h \o t : h \in ArcsOf(g, Head(xs)), t \in ArcsAlong(g, Tail(xs)) }

\* every list the comprehension of ac3(arcs=None) can build
AllArcs(g) == UNION { ArcsAlong(g, xs) : xs \in Perms(Variables(g)) }

\* mutant: nothing is appended after domain(x) shrank
RequeuedNothing(g, x, y) == { <<>> }

\* the arcs (neighbor, x) appended after domain(x) shrank, in any order
Requeued(g, x, y) ==
    { [k \in 1 .. Len(p) |-> <<p[k], x>>] : p \in Perms(Neighbors(g, x) \ {y}) }

\* mutant: the first arc is read and left in the queue
RestKeepsHead(q) == q

\* queue.pop(0): what stays in the queue
Rest(q) == Tail(q)

\* what solve() does with ac3's return value: it is dropped, search follows
AfterAc3(ret) == "call"

\* arcs = all arcs; queue = arcs.copy()
Ac3Begin ==
    /\ pc = "ac3"
    /\ queue' \in AllArcs(structure)
    /\ pc' = "ac3_loop"
    /\ UNCHANGED <<structure, words, domains, ac3ret, revised, assignment,
                   stack, searched, result>>
    /\ UNCHANGED outside

\* one iteration of the loop that does not empty domain(x)
Ac3Revise ==
    /\ pc = "ac3_loop"
    /\ queue # <<>>
    /\ LET x == Head(queue)[1]
           y == Head(queue)[2]
           r == Revise(domains, x, y)
       IN  /\ ~ (r.revised /\ r.domains[x] = {})
           /\ domains' = r.domains
           /\ IF r.revised
              THEN /\ \E more \in Requeued(structure, x, y) :
                        queue' = Rest(queue) \o more
                   /\ revised' = revised \cup {x, y}
              ELSE /\ queue' = Rest(queue)
                   /\ revised' = revised
    /\ UNCHANGED <<structure, words, pc, ac3ret, assignment, stack, searched,
                   result>>
    /\ UNCHANGED outside

\* the iteration that empties domain(x): ac3 returns False
Ac3Wipeout ==
    /\ pc = "ac3_loop"
    /\ queue # <<>>
    /\ LET x == Head(queue)[1]
           y == Head(queue)[2]
           r == Revise(domains, x, y)
       IN  /\ r.revised /\ r.domains[x] = {}
           /\ domains' = r.domains
           /\ revised' = revised \cup {x, y}
    /\ queue' = Rest(queue)
    /\ ac3ret' = "false"
    /\ pc' = AfterAc3("false")
    /\ UNCHANGED <<structure, words, assignment, stack, searched, result>>
    /\ UNCHANGED outside

\* the queue is empty: ac3 returns True
Ac3Done ==
    /\ pc = "ac3_loop"
    /\ queue = <<>>
    /\ ac3ret' = "true"
    /\ pc' = AfterAc3("true")
    /\ UNCHANGED <<structure, words, domains, queue, revised, assignment,
                   stack, searched, result>>
    /\ UNCHANGED outside

----------------------------------------------------------------------------
(* assignments *)

\* assignment[var] = word
Store(a, var, word) ==
    [v \in DOMAIN a \cup {var} |-> IF v = var THEN word ELSE a[v]]

\* mutant: the entry is left in place
DeleteNothing(a, var) == a

\* del assignment[var]
Delete(a, var) == [v \in DOMAIN a \ {var} |-> a[v]]

\* mutant: the set difference is taken the other way round
AssignmentCompleteReversed(g, a) == DOMAIN a \ Variables(g) = {}

\* assignment_complete
AssignmentComplete(g, a) == Variables(g) \ DOMAIN a = {}

\* mutant: consistent without the comparison of the numbers of words
ConsistentRepeats(g, a) ==
    /\ \A i \in DOMAIN a : Len(a[i]) = i.length
    /\ \A i \in DOMAIN a : \A j \in Neighbors(g, i) :
         j \in DOMAIN a =>
            Letter(a[i], Overlap(i, j)[1]) = Letter(a[j], Overlap(i, j)[2])

\* consistent: distinct words, then lengths, then overlaps of assigned neighbors
Consistent(g, a) ==
    /\ Cardinality(DOMAIN a) = Cardinality({ a[v] : v \in DOMAIN a })
    /\ \A i \in DOMAIN a : Len(a[i]) = i.length
    /\ \A i \in DOMAIN a : \A j \in Neighbors(g, i) :
         j \in DOMAIN a =>
            Letter(a[i], Overlap(i, j)[1]) = Letter(a[j], Overlap(i, j)[2])

----------------------------------------------------------------------------
(* select_unassigned_variable *)

\* mutant: the neighbor count is not negated
SortKeyFewestNeighbors(g, d, var) ==
    << Cardinality(d[var]), Cardinality(Neighbors(g, var)) >>

\* the sort key (len(domains[var]), -len(neighbors(var)))
SortKey(g, d, var) == << Cardinality(d[var]), 0 - Cardinality(Neighbors(g, var)) >>

\* mutant: the assigned variables are not taken out of the candidates
SelectAnyVariable(g, d, a) ==
    { var \in Variables(g) :
        \A other \in Variables(g) :
           ~ (\/ Cardinality(d[other]) < Cardinality(d[var])
              \/ /\ Cardinality(d[other]) = Cardinality(d[var])
                 /\ Cardinality(Neighbors(g, other)) > Cardinality(Neighbors(g, var))) }

\* tuple comparison k1 < k2
KeyLess(k1, k2) == k1[1] < k2[1] \/ (k1[1] = k2[1] /\ k1[2] < k2[2])

\* the values select_unassigned_variable may return: sorted() is stable and
\* the list it sorts is in set enumeration order, so any variable of least
\* key can come first; None when the list is empty
SelectUnassignedVariable(g, d, a) ==
    LET _vars == Variables(g) \ DOMAIN a
    IN  IF _vars = {} THEN { None }
        ELSE { var \in _vars :
                 \A other \in _vars :
                    ~ KeyLess(SortKey(g, d, other), SortKey(g, d, var)) }

----------------------------------------------------------------------------
(* order_domain_values *)

RECURSIVE Sum(_, _)
\* sum of f[e] over the elements e of S
Sum(f, S) ==
    IF S = {} THEN 0
    ELSE LET e == CHOOSE e \in S : TRUE IN f[e] + Sum(f, S \ {e})

\* _neighbor(temp, v): words of domain(temp) equal to v or disagreeing with it
NeighborCount(live, a, var, temp, v) ==
    IF temp \in DOMAIN a THEN 0
    ELSE Cardinality({ i \in live[temp] :
            \/ i = v
            \/ /\ Overlap(var, temp) # None
               /\ Letter(v, Overlap(var, temp)[1]) # Letter(i, Overlap(var, temp)[2]) })

\* the count _value(val) returns, domain(var) being set([val]) meanwhile
ValueCount(g, live, a, var, val) ==
    LET during == [live EXCEPT ![var] = {val}]
        _vars == Variables(g) \ DOMAIN a
    IN  Sum([i \in Neighbors(g, var) \cap _vars |->
                NeighborCount(during, a, var, i, val)],
            Neighbors(g, var) \cap _vars)

\* the store _value(val) leaves: domain(var) overwritten, then put back
ValueStore(live, var, val) ==
    LET temp == live[var]
        during == [live EXCEPT ![var] = {val}]
    IN  [during EXCEPT ![var] = temp]

RECURSIVE AfterValues(_, _, _)
\* the store after _value has run on each value of vals
AfterValues(live, var, vals) ==
    IF vals = {} THEN live
    ELSE LET val == CHOOSE val \in vals : TRUE
         IN  AfterValues(ValueStore(live, var, val), var, vals \ {val})

\* the lists sorted(self.domains[var], key=_value) can produce
SortedValues(g, live, a, var) ==
    { p \in Perms(live[var]) :
        \A m, n \in 1 .. Len(p) :
           m < n => ValueCount(g, live, a, var, p[m]) <= ValueCount(g, live, a, var, p[n]) }

\* temp_domain = self.domains.copy(): a new dict holding the same sets
CopyStore(d) == d

\* for i in assignment: self.domains[i] = set([assignment[i]])
Narrowed(d, a) ==
    [v \in DOMAIN d |-> IF v \in DOMAIN a THEN { a[v] } ELSE d[v]]

\* mutant: the dict written to since the copy stays in place
RestoreStoreSkipped(temp_domain, live) == live

\* self.domains = temp_domain: the copy replaces the dict written to since
RestoreStore(temp_domain, live) == temp_domain

\* mutant: the value returned is read while domain(var) is still the
\* set([val]) of the last _value call
ReturnedValuesOverwritten(d, var) ==
    IF d[var] = {} THEN {} ELSE { CHOOSE val \in d[var] : TRUE }

\* _val = self.domains[var].copy(): the value returned is this set
ReturnedValues(d, var) == d[var]

\* order_domain_values(var, assignment): the store it leaves and the set it
\* returns; the sorted list is computed and dropped
OrderDomainValues(g, d, var, a) ==
    IF d[var] = {}
    THEN [domains |-> d, values |-> {}, sorted |-> { <<>> }]
    ELSE LET temp_domain == CopyStore(d)
             live == Narrowed(d, a)
             _val == SortedValues(g, live, a, var)
             after == AfterValues(live, var, live[var])
             restored == RestoreStore(temp_domain, after)
         IN  [domains |-> restored,
              values |-> ReturnedValues(restored, var),
              sorted |-> _val]

----------------------------------------------------------------------------
(* backtrack *)

\* a backtrack() call inside its for loop: the variable it selected, the
\* values in the order the loop takes them, the index of the next one, and
\* the assignment the call was entered with
Frame(var, values, a) == [var |-> var, values |-> values, next |-> 1, entry |-> a]

Top == stack[Len(stack)]
Pop == SubSeq(stack, 1, Len(stack) - 1)

\* if not self.consistent(assignment): return None
BacktrackInconsistent ==
    /\ pc = "call"
    /\ ~ Consistent(structure, assignment)
    /\ searched' = TRUE
    /\ pc' = "returned"
    /\ UNCHANGED <<structure, words, domains, queue, ac3ret, revised,
                   assignment, stack, result>>
    /\ UNCHANGED outside

\* if self.assignment_complete(assignment): return assignment; every caller
\* passes the result on
BacktrackComplete ==
    /\ pc = "call"
    /\ Consistent(structure, assignment)
    /\ AssignmentComplete(structure, assignment)
    /\ searched' = TRUE
    /\ stack' = <<>>
    /\ result' = "assignment"
    /\ pc' = "done"
    /\ UNCHANGED <<structure, words, domains, queue, ac3ret, revised,
                   assignment>>
    /\ UNCHANGED outside

\* _var = select_unassigned_variable(...); the loop over
\* order_domain_values(_var, assignment) starts
BacktrackSelect ==
    /\ pc = "call"
    /\ Consistent(structure, assignment)
    /\ ~ AssignmentComplete(structure, assignment)
    /\ \E _var \in SelectUnassignedVariable(structure, domains, assignment) :
         LET ordered == OrderDomainValues(structure, domains, _var, assignment)
         IN  /\ domains' = ordered.domains
             /\ \E values \in Perms(ordered.values) :
                  stack' = Append(stack, Frame(_var, values, assignment))
    /\ searched' = TRUE
    /\ pc' = "loop"
    /\ UNCHANGED <<structure, words, queue, ac3ret, revised, assignment,
                   result>>
    /\ UNCHANGED outside

\* assignment[_var] = i; result = self.backtrack(assignment)
BacktrackAssign ==
    /\ pc = "loop"
    /\ Top.next <= Len(Top.values)
    /\ assignment' = Store(assignment, Top.var, Top.values[Top.next])
    /\ stack' = [stack EXCEPT ![Len(stack)].next = @ + 1]
    /\ pc' = "call"
    /\ UNCHANGED <<structure, words, domains, queue, ac3ret, revised,
                   searched, result>>
    /\ UNCHANGED outside

\* the recursive call returned None: del assignment[_var]
BacktrackUndo ==
    /\ pc = "returned"
    /\ stack # <<>>
    /\ assignment' = Delete(assignment, Top.var)
    /\ pc' = "loop"
    /\ UNCHANGED <<structure, words, domains, queue, ac3ret, revised,
                   stack, searched, result>>
    /\ UNCHANGED outside

\* the loop is over: return None
BacktrackExhausted ==
    /\ pc = "loop"
    /\ Top.next > Len(Top.values)
    /\ stack' = Pop
    /\ pc' = "returned"
    /\ UNCHANGED <<structure, words, domains, queue, ac3ret, revised,
                   assignment, searched, result>>
    /\ UNCHANGED outside

\* backtrack(dict()) returned None to solve()
SolveFailure ==
    /\ pc = "returned"
    /\ stack = <<>>
    /\ result' = "failure"
    /\ pc' = "done"
    /\ UNCHANGED <<structure, words, domains, queue, ac3ret, revised,
                   assignment, stack, searched>>
    /\ UNCHANGED outside

----------------------------------------------------------------------------
(* solve *)

Next ==
    \/ EnforceNodeConsistency
    \/ Ac3Begin
    \/ Ac3Revise
    \/ Ac3Wipeout
    \/ Ac3Done
    \/ BacktrackInconsistent
    \/ BacktrackComplete
    \/ BacktrackSelect
    \/ BacktrackAssign
    \/ BacktrackUndo
    \/ BacktrackExhausted
    \/ SolveFailure

Spec == Init /\ [][Next]_vars

----------------------------------------------------------------------------
(* Vocabulary of the properties *)

Frames == { stack[k] : k \in 1 .. Len(stack) }

\* the two words agree on the letter of the cell x and y share
Agree(x, word_x, y, word_y) ==
    Letter(word_x, Overlap(x, y)[1]) = Letter(word_y, Overlap(x, y)[2])

\* a is complete and consistent for grid g
IsSolution(g, a) ==
    /\ DOMAIN a = Variables(g)
    /\ \A u, v \in DOMAIN a : u # v => a[u] # a[v]
    /\ \A v \in DOMAIN a : Len(a[v]) = v.length
    /\ \A u \in DOMAIN a : \A v \in Neighbors(g, u) : Agree(u, a[u], v, a[v])

\* some complete consistent assignment can be drawn from the word list ws
Solvable(g, ws) == \E a \in [Variables(g) -> ws] : IsSolution(g, a)

\* every arc of the graph is consistent in store d
ArcConsistent(g, d) ==
    \A x \in Variables(g) : \A y \in Neighbors(g, x) : \A w \in d[x] :
        \E w2 \in d[y] : Agree(x, w, y, w2)

----------------------------------------------------------------------------
(* C1: soundness.  Whenever solve() returns an assignment, the assignment   *)
(* has an entry for every variable of the graph, no two entries hold the    *)
(* same word, every word has its variable's length, and neighboring         *)
(* variables agree on the letter of the cell they share.                    *)
C1_Soundness ==
    result = "assignment" => IsSolution(structure, assignment)

\* solve() returned an assignment for a grid with crossing slots
C1_Witness ==
    /\ result = "assignment"
    /\ \E v \in Variables(structure) : Neighbors(structure, v) # {}

(* C2: completeness.  If some complete consistent assignment can be drawn   *)
(* from the original word list, solve() returns an assignment, not failure. *)
C2_Completeness ==
    (pc = "done" /\ Solvable(structure, words)) => result = "assignment"

\* a solvable puzzle, solved after propagation removed words
C2_Witness ==
    /\ pc = "done"
    /\ Solvable(structure, words)
    /\ result = "assignment"
    /\ revised # {}

(* C3: if ac3 reports failure, solve() returns failure at once and          *)
(* backtrack is never invoked in that solve() call.                         *)
C3_NoSearchAfterAc3Failure ==
    ac3ret = "false" => ~ searched

(* C4: arc-consistency postcondition.  After ac3() on node-consistent       *)
(* domains returned True, every word of every domain has a word agreeing    *)
(* with it at the overlap in each neighbor's domain, and no domain of an    *)
(* arc whose revision removed a word is empty.                              *)
C4_ArcConsistency ==
    ac3ret = "true" =>
        /\ ArcConsistent(structure, domains)
        /\ \A v \in revised : domains[v] # {}

\* ac3 returned True after at least one revision removed a word
C4_Witness ==
    /\ ac3ret = "true"
    /\ revised # {}

(* C5: node-consistency postcondition.  After enforce_node_consistency()    *)
(* the domain of every variable v is exactly the set of words of the        *)
(* initial domain whose length is v.length.                                 *)
C5_NodeConsistency ==
    pc = "ac3" =>
        \A v \in Variables(structure) :
            domains[v] = { w \in words : Len(w) = v.length }

\* node consistency ran and removed a word from one domain while keeping one
C5_Witness ==
    /\ pc = "ac3"
    /\ \E v \in Variables(structure) :
         /\ domains[v] # {}
         /\ domains[v] # words

\* the unassigned neighbors of the variable of frame f, when f was entered
UnassignedNeighbors(f) == Neighbors(structure, f.var) \ DOMAIN f.entry

\* the number of words value v rules out among the unassigned neighbors
Eliminated(f, v) ==
    Sum([n \in UnassignedNeighbors(f) |->
            Cardinality({ u \in domains[n] : ~ Agree(f.var, v, n, u) })],
        UnassignedNeighbors(f))

(* C6: order_domain_values returns the values of var's domain in ascending  *)
(* order of the number of words they rule out among the unassigned          *)
(* neighbors: a value with a smaller count never follows one with a larger  *)
(* count.                                                                   *)
C6_LeastConstrainingFirst ==
    \A f \in Frames : \A m, n \in 1 .. Len(f.values) :
        m < n => Eliminated(f, f.values[m]) <= Eliminated(f, f.values[n])

(* C7: order_domain_values returns exactly the words of the current domain  *)
(* of var, each once, an empty domain giving an empty result.               *)
C7_ValuesArePermutation ==
    \A f \in Frames :
        /\ Range(f.values) = domains[f.var]
        /\ Len(f.values) = Cardinality(domains[f.var])

\* order_domain_values returned several values below a non-empty assignment
C7_Witness ==
    \E f \in Frames : Len(f.values) >= 2 /\ DOMAIN f.entry # {}

(* C8: order_domain_values leaves the domain of every variable as it was    *)
(* at the call, on both exit paths, so a whole backtrack() run leaves every *)
(* domain as it found it.                                                   *)
C8_SearchKeepsDomains ==
    [][(pc \in {"call", "loop", "returned"}) => (domains' = domains)]_vars

\* order_domain_values ran its normal path while an assigned variable held
\* more than one word in its domain
C8_Witness ==
    \E f \in Frames :
        /\ f.values # <<>>
        /\ \E v \in DOMAIN f.entry : Cardinality(domains[v]) >= 2

(* C9: select_unassigned_variable never returns a variable that has an      *)
(* entry in the assignment; with a variable left unassigned it returns an   *)
(* unassigned variable of the graph.                                        *)
C9_SelectsUnassigned ==
    \A f \in Frames :
        /\ f.var \notin DOMAIN f.entry
        /\ f.var \in Variables(structure)

\* a variable was selected while another one was already assigned
C9_Witness ==
    \E f \in Frames : DOMAIN f.entry # {}

(* C10: the selected variable has the least domain size among the           *)
(* unassigned variables, and the greatest neighbor count among the          *)
(* unassigned variables of that domain size.                                *)
C10_MinimumRemainingValues ==
    \A f \in Frames : \A other \in Variables(structure) \ DOMAIN f.entry :
        /\ Cardinality(domains[f.var]) <= Cardinality(domains[other])
        /\ Cardinality(domains[other]) = Cardinality(domains[f.var]) =>
              Cardinality(Neighbors(structure, f.var)) >=
                  Cardinality(Neighbors(structure, other))

\* the neighbor count decided between two unassigned variables with domains
\* of the same size, and the domain size decided against a third one
C10_Witness ==
    \E f \in Frames : \E o1, o2 \in Variables(structure) \ DOMAIN f.entry :
        /\ Cardinality(domains[o1]) = Cardinality(domains[f.var])
        /\ Cardinality(Neighbors(structure, o1)) <
               Cardinality(Neighbors(structure, f.var))
        /\ Cardinality(domains[o2]) > Cardinality(domains[f.var])

----------------------------------------------------------------------------
(* The propagation run again by the caller *)

\* enforce_node_consistency() called again, before or after ac3()
NodeAgain ==
    /\ pc \in {"ac3", "call"}
    /\ ~ searched
    /\ domains' = EnforceNodeConsistencyDomains(domains)
    /\ lastcall' = [op |-> "enforce_node_consistency"]
    /\ UNCHANGED <<structure, words, pc, queue, ac3ret, revised, assignment,
                   stack, searched, result, previous>>

\* ac3() called again after it returned True; ac3ret keeps the value of the
\* run before until this one returns
Ac3Again ==
    /\ pc = "call"
    /\ ~ searched
    /\ ac3ret = "true"
    /\ pc' = "ac3"
    /\ lastcall' = [op |-> "ac3"]
    /\ UNCHANGED <<structure, words, domains, queue, ac3ret, revised,
                   assignment, stack, searched, result, previous>>

NextTwice ==
    \/ EnforceNodeConsistency
    \/ NodeAgain
    \/ Ac3Begin
    \/ Ac3Revise
    \/ Ac3Wipeout
    \/ Ac3Done
    \/ Ac3Again

SpecTwice == Init /\ [][NextTwice]_vars

(* C11: idempotence of propagation.  Running enforce_node_consistency() a   *)
(* second time removes no word from any domain; running ac3() again after   *)
(* ac3() returned True removes no word from any domain and returns True.    *)
C11_Idempotence ==
    [][/\ NodeAgain => (domains' = domains)
       /\ (ac3ret = "true") => (domains' = domains /\ ac3ret' = "true")]_vars

\* the second run of ac3() has returned, the first one having removed words
C11_Witness ==
    /\ pc = "call"
    /\ lastcall.op = "ac3"
    /\ revised # {}

\* the variables whose length no word of the word list has
Unfillable(g, ws) ==
    { v \in Variables(g) : \A w \in ws : Len(w) # v.length }

(* C12: if some variable has a length that no word of the word list has,    *)
(* solve() returns failure, never an assignment, whether or not that        *)
(* variable has neighbors.                                                  *)
C12_UnfillableFails ==
    (pc = "done" /\ Unfillable(structure, words) # {}) => result = "failure"

\* solve() has returned for a grid where a variable without neighbors has no
\* word of its length while another variable has words
C12_Witness ==
    /\ pc = "done"
    /\ \E v \in Unfillable(structure, words) : Neighbors(structure, v) = {}
    /\ \E u \in Variables(structure) : domains[u] # {}

----------------------------------------------------------------------------
(* solve() run a second time on the same grid and word list *)

\* main() once more: a new CrosswordCreator on the same crossword, the result
\* of the run before kept for comparison
SolveAgain ==
    /\ pc = "done"
    /\ previous = NoRun
    /\ previous' = [result |-> result, assignment |-> assignment]
    /\ domains' = InitialDomains(structure, words)
    /\ pc' = "node"
    /\ queue' = <<>>
    /\ ac3ret' = "none"
    /\ revised' = {}
    /\ assignment' = EmptyAssignment
    /\ stack' = <<>>
    /\ searched' = FALSE
    /\ result' = "none"
    /\ UNCHANGED <<structure, words, lastcall>>

NextAgain == Next \/ SolveAgain

SpecAgain == Init /\ [][NextAgain]_vars

(* C13: reproducible search.  Two runs of solve() on the same grid and the  *)
(* same word list return the same result, the ties left by domain size and  *)
(* neighbor count being broken by a fixed order of the variables and not by *)
(* the enumeration order of the variable set.                               *)
C13_Reproducible ==
    (pc = "done" /\ previous # NoRun) =>
        /\ previous.result = result
        /\ previous.assignment = assignment

----------------------------------------------------------------------------
(* letter_grid *)

\* the None of a cell no word has been written to
NoLetter == "None"

\* letters = [[None for _ in range(width)] for _ in range(height)]
BlankGrid(g) ==
    [cell \in (0 .. g.height - 1) \X (0 .. g.width - 1) |-> NoLetter]

\* mutant: the index runs along the row for a down slot and along the column
\* for an across slot
LetterCellSwapped(variable, k) ==
    <<variable.i + (IF variable.direction = ACROSS THEN k ELSE 0),
      variable.j + (IF variable.direction = DOWN THEN k ELSE 0)>>

\* the cell (i, j) letter_grid writes word[k] to
LetterCell(variable, k) ==
    <<variable.i + (IF variable.direction = DOWN THEN k ELSE 0),
      variable.j + (IF variable.direction = ACROSS THEN k ELSE 0)>>

RECURSIVE PlaceWord(_, _, _, _)
\* for k in range(len(word)): letters[i][j] = word[k], from index k on
PlaceWord(letters, variable, word, k) ==
    IF k >= Len(word) THEN letters
    ELSE PlaceWord([letters EXCEPT ![LetterCell(variable, k)] = Letter(word, k)],
                   variable, word, k + 1)

RECURSIVE PlaceItems(_, _)
\* for variable, word in assignment.items(), items being that list
PlaceItems(letters, items) ==
    IF items = <<>> THEN letters
    ELSE PlaceItems(PlaceWord(letters, Head(items)[1], Head(items)[2], 0),
                    Tail(items))

\* letter_grid(assignment), items being assignment.items()
LetterGrid(g, items) == PlaceItems(BlankGrid(g), items)

\* the lists assignment.items() can be: a dict keeps insertion order, which the
\* model does not record, so every order of the entries is taken
Items(a) ==
    { [k \in 1 .. Len(order) |-> <<order[k], a[order[k]]>>] :
        order \in Perms(DOMAIN a) }

\* letter_grid(assignment) called on the assignment as it stands, at any
\* point of solve(); the run is then looked at no further
LetterGridCall ==
    /\ pc # "inspect"
    /\ \E items \in Items(assignment) :
         lastcall' = [op |-> "letter_grid",
                      value |-> LetterGrid(structure, items)]
    /\ pc' = "inspect"
    /\ UNCHANGED <<structure, words, domains, queue, ac3ret, revised,
                   assignment, stack, searched, result, previous>>

NextGrid == Next \/ LetterGridCall

SpecGrid == Init /\ [][NextGrid]_vars

\* the variables assigned in a whose slot covers the cell
Covering(a, cell) == { v \in DOMAIN a : cell \in Cells(v) }

\* grid is what the claim says of letter_grid(a) on grid g
ShowsAssignment(g, a, grid) ==
    \A cell \in (0 .. g.height - 1) \X (0 .. g.width - 1) :
        IF Covering(a, cell) = {}
        THEN grid[cell] = NoLetter
        ELSE \E v \in Covering(a, cell) : \E k \in 0 .. v.length - 1 :
                /\ CellAt(v, k) = cell
                /\ grid[cell] = Letter(a[v], k)

(* C14: letter_grid(assignment) leaves the domain store and the assignment  *)
(* unchanged, and in the grid it returns every cell covered by an assigned  *)
(* variable holds the letter of an assigned word at the matching index and  *)
(* every cell covered by no assigned variable holds None.                   *)
C14_LetterGrid ==
    [][(lastcall'.op = "letter_grid") =>
          /\ domains' = domains
          /\ assignment' = assignment
          /\ ShowsAssignment(structure, assignment, lastcall'.value)]_vars

\* letter_grid ran on a partial assignment: an assigned variable crosses an
\* unassigned one
C14_Witness ==
    /\ lastcall.op = "letter_grid"
    /\ \E v \in DOMAIN assignment : \E u \in Neighbors(structure, v) :
         u \notin DOMAIN assignment

----------------------------------------------------------------------------
(* revise called by hand *)

\* revise(x, y) on any two variables, once the domains are node-consistent
ReviseCall ==
    /\ pc = "ac3"
    /\ \E x, y \in Variables(structure) :
         /\ x # y
         /\ domains' = Revise(domains, x, y).domains
         /\ lastcall' = [op |-> "revise", x |-> x, y |-> y,
                         value |-> Revise(domains, x, y).revised]
    /\ UNCHANGED <<structure, words, pc, queue, ac3ret, revised, assignment,
                   stack, searched, result, previous>>

NextRevise == EnforceNodeConsistency \/ ReviseCall

SpecRevise == Init /\ [][NextRevise]_vars

\* the words of domain(x) that some word of domain(y) agrees with
Supported(d, x, y) ==
    { wx \in d[x] : \E wy \in d[y] : Agree(x, wx, y, wy) }

(* C15: revise(x, y) with overlap (i, j) leaves in domain(x) exactly the    *)
(* words wx of the previous domain(x) for which some wy of domain(y) has    *)
(* wx[i] = wy[j]; it returns True iff a word was removed; domain(y) and     *)
(* every other domain are unchanged; without an overlap nothing changes and *)
(* it returns False.                                                        *)
C15_Revise ==
    [][(lastcall'.op = "revise") =>
          LET x == lastcall'.x
              y == lastcall'.y
          IN  /\ Overlap(x, y) # None => domains'[x] = Supported(domains, x, y)
              /\ Overlap(x, y) = None =>
                    (domains'[x] = domains[x] /\ lastcall'.value = FALSE)
              /\ lastcall'.value = (domains'[x] # domains[x])
              /\ \A v \in Variables(structure) \ {x} : domains'[v] = domains[v]]_vars

\* revise removed some of the words of domain(x) and kept others
C15_Witness ==
    /\ lastcall.op = "revise"
    /\ lastcall.value = TRUE
    /\ domains[lastcall.x] # {}

----------------------------------------------------------------------------
(* undo in backtrack *)

\* a call of backtrack returns None after its loop over the values
ReturnsExhausted == pc = "loop" /\ pc' = "returned"

(* C16: whenever a call backtrack(assignment) returns None the assignment   *)
(* holds exactly the entries it held when that call started; after a failed *)
(* solve() the assignment is empty.                                         *)
C16_GuaranteedUndo ==
    /\ [][/\ ReturnsExhausted => (assignment' = Top.entry)
          /\ (pc = "call" /\ pc' = "returned") => (assignment' = assignment)]_vars
    /\ [](result = "failure" => assignment = EmptyAssignment)

\* a nested call that tried at least one value has returned None
C16_Witness ==
    /\ pc = "returned"
    /\ stack # <<>>
    /\ Consistent(structure, assignment)
    /\ \A v \in Variables(structure) \ DOMAIN assignment : domains[v] # {}

----------------------------------------------------------------------------
(* termination of ac3 *)

\* the propagation of solve(): enforce_node_consistency(), then ac3()
NextAc3 ==
    \/ EnforceNodeConsistency
    \/ Ac3Begin
    \/ Ac3Revise
    \/ Ac3Wipeout
    \/ Ac3Done

\* the propagation runs on: a step that can be taken is taken
SpecAc3 == Init /\ [][NextAc3]_vars /\ WF_vars(NextAc3)

\* enforce_node_consistency or ac3 is running
Propagating == pc \in {"node", "ac3", "ac3_loop"}

(* C17: ac3 terminates: the work queue eventually empties or a domain       *)
(* empties, although arcs are re-enqueued; and during node consistency and  *)
(* AC-3 each step's domain is a subset of the previous one.                 *)
C17_Ac3Terminates ==
    /\ <>(ac3ret # "none")
    /\ [][Propagating =>
            \A v \in Variables(structure) : domains'[v] \subseteq domains[v]]_vars

\* ac3 has returned after shrinking the domains of two variables or more
C17_Witness ==
    /\ ac3ret # "none"
    /\ \E u, v \in Variables(structure) :
         /\ u # v
         /\ domains[u] # NodeConsistentDomain(u, words)
         /\ domains[v] # NodeConsistentDomain(v, words)

----------------------------------------------------------------------------
(* consistent called by hand *)

\* a caller puts any word of the list on any variable
StoreByHand ==
    /\ pc = "node"
    /\ \E var \in Variables(structure) : \E word \in words :
         assignment' = Store(assignment, var, word)
    /\ UNCHANGED <<structure, words, domains, pc, queue, ac3ret, revised,
                   stack, searched, result, previous, lastcall>>

\* consistent(assignment)
ConsistentCall ==
    /\ pc = "node"
    /\ lastcall' = [op |-> "consistent",
                    value |-> Consistent(structure, assignment)]
    /\ pc' = "inspect"
    /\ UNCHANGED <<structure, words, domains, queue, ac3ret, revised,
                   assignment, stack, searched, result, previous>>

NextConsistent == StoreByHand \/ ConsistentCall

SpecConsistent == Init /\ [][NextConsistent]_vars

\* (a) two assigned variables hold the same word
SameWord(a) == \E i, j \in DOMAIN a : i # j /\ a[i] = a[j]

\* (b) some assigned word's length differs from its variable's length
WrongLength(a) == \E i \in DOMAIN a : Len(a[i]) # i.length

\* (c) two assigned neighboring variables disagree at their overlap
Disagree(g, a) ==
    \E i \in DOMAIN a : \E j \in Neighbors(g, i) \cap DOMAIN a :
        ~ Agree(i, a[i], j, a[j])

(* C18: consistent(assignment) returns False iff two assigned variables     *)
(* hold the same word, or an assigned word's length differs from its        *)
(* variable's length, or two assigned neighbors disagree at their overlap;  *)
(* the empty assignment is consistent.                                      *)
C18_Consistent ==
    (lastcall.op = "consistent") =>
       /\ lastcall.value =
             ~ (\/ SameWord(assignment)
                \/ WrongLength(assignment)
                \/ Disagree(structure, assignment))
       /\ (assignment = EmptyAssignment) => (lastcall.value = TRUE)

\* consistent returned False for overlapping letters alone, with a variable
\* left unassigned
C18_Witness ==
    /\ lastcall.op = "consistent"
    /\ lastcall.value = FALSE
    /\ ~ SameWord(assignment)
    /\ ~ WrongLength(assignment)
    /\ Variables(structure) \ DOMAIN assignment # {}

----------------------------------------------------------------------------
(* propagation keeps the solutions *)

\* the complete consistent assignments over the word list ws
Solutions(g, ws) == { a \in [Variables(g) -> ws] : IsSolution(g, a) }

(* C19: propagation never removes a word used by a solution: for every      *)
(* consistent complete assignment A over the original word list and every   *)
(* variable v, A[v] is in domain(v) after enforce_node_consistency() and    *)
(* after ac3(); so ac3() returns False only when there is no solution.      *)
C19_SolutionsKept ==
    /\ \A a \in Solutions(structure, words) :
          \A v \in Variables(structure) : a[v] \in domains[v]
    /\ (ac3ret = "false") => (Solutions(structure, words) = {})

\* ac3 has removed words from a domain of a puzzle that has a solution
C19_Witness ==
    /\ ac3ret = "true"
    /\ Solutions(structure, words) # {}
    /\ \E v \in Variables(structure) :
          domains[v] # NodeConsistentDomain(v, words)

----------------------------------------------------------------------------
(* the work queue of ac3 *)

\* each word of domain(a) has a matching word in domain(b) at the overlap
ArcIsConsistent(d, a, b) ==
    \A wa \in d[a] : \E wb \in d[b] : Agree(a, wa, b, wb)

\* the arcs (n, x) for the neighbors n of x other than y
ArcsInto(g, x, y) == { <<n, x>> : n \in Neighbors(g, x) \ {y} }

\* the arcs appended to the queue by one iteration
Appended == SubSeq(queue', Len(queue), Len(queue'))

(* C20: at every iteration of the queue loop of ac3(arcs=None), every       *)
(* ordered neighbor arc (a, b) that is not in the queue is arc-consistent;  *)
(* after revise(x, y) shrinks domain(x) the arcs (n, x) for the neighbors n *)
(* other than y, and not (y, x), are appended behind the queue's arcs.      *)
C20_WorklistInvariant ==
    /\ [](pc = "ac3_loop" =>
            \A a \in Variables(structure) : \A b \in Neighbors(structure, a) :
                <<a, b>> \notin Range(queue) =>
                    ArcIsConsistent(domains, a, b))
    /\ [][(pc = "ac3_loop" /\ pc' = "ac3_loop") =>
            LET x == Head(queue)[1]
                y == Head(queue)[2]
            IN  /\ SubSeq(queue', 1, Len(queue) - 1) = Tail(queue)
                /\ Range(Appended) =
                      IF domains'[x] # domains[x]
                      THEN ArcsInto(structure, x, y) ELSE {}
                /\ Len(Appended) = Cardinality(Range(Appended))]_vars

\* domain(x) has shrunk, (n, x) waits in the queue and (y, x) does not
C20_Witness ==
    /\ pc = "ac3_loop"
    /\ \E x \in Variables(structure) : \E y \in Neighbors(structure, x) :
         /\ domains[x] # NodeConsistentDomain(x, words)
         /\ <<y, x>> \notin Range(queue)
         /\ \E n \in Neighbors(structure, x) \ {y} : <<n, x>> \in Range(queue)

====
